---------------------------- MODULE Spec2Model ----------------------------
(***************************************************************************)
(* Model of the PDF comparison pipeline of docs-comparator-next.           *)
(*                                                                         *)
(*   src/components/DiffProcessor.tsx   processDiff and its helpers        *)
(*   src/unnamed/part_002               the earlier pipeline variant with  *)
(*                                      createLineDiff / createHtmlDiff    *)
(*                                                                         *)
(* A string is a sequence of one-character strings, so that offsets,       *)
(* lengths and substrings are those of the code (0-based half-open         *)
(* [start, end) in the code, SubSeq(s, start + 1, end) here).              *)
(***************************************************************************)
EXTENDS Integers, Sequences, FiniteSets, TLC

VARIABLES
    pc,              \* position of the running processDiff
    file2,           \* the parsed content of file2.file: pages of text items
    text1,           \* text1ForAnnotation
    text2,           \* text2ForAnnotation
    parts,           \* result of diff.diffWords(t1, t2)
    segments,        \* result of computeAddedAndModifiedSegments
    layout,          \* result of collectSecondTextLayout(fileSecond)
    outDoc,          \* pages of outDoc, each with the rectangles drawn on it
    remote,          \* outcome of the remote compare call
    thrown,          \* which step threw, "none" while nothing did
    isProcessing,    \* useState isProcessing
    error,           \* useState error (TRUE: a message is set)
    htmlDiff,        \* useState htmlDiff (TRUE: a report is set)
    annotatedPdfUrl, \* useState annotatedPdfUrl (TRUE: a URL is set)
    calledBack,      \* onComplete / onError calls of the run, in order
    file1,           \* TRUE while the prop file1 is set; its content is read
                     \* by extractTextLocalFallback when a run needs it
    callbacks,       \* TRUE when the parent passed onComplete and onError
    runs,            \* number of processDiff runs that passed line 389
    stats,           \* useState stats: 0 while null, else the number of the
                     \* run whose reply it was taken from
    isIdentical,     \* useState isIdentical: 0 for its initial value, else
                     \* the number of the run that set it
    madeBy,          \* the number of the run that set htmlDiff and
                     \* annotatedPdfUrl, 0 while they are null
    linePc,          \* createLineDiff: position of the call
    lineIn,          \* createLineDiff: <<text1, text2>>
    lineParts,       \* createLineDiff: result of diff.diffLines
    lineIdx,         \* createLineDiff: number of blocks walked so far
    rows,            \* createLineDiff: result
    index1,          \* createLineDiff: index1
    index2,          \* createLineDiff: index2
    sanPc,           \* sanitizeTextForWinAnsi: position of the call
    sanIn,           \* sanitizeTextForWinAnsi: the code points of s
    sanOut,          \* sanitizeTextForWinAnsi: the UTF-16 code units returned
    slots,           \* Home: useState file1 and file2, 0 for null, else the
                     \* number of the upload that gave the file
    status,          \* Home: useState status
    homeError,       \* Home: useState error (TRUE: a message is set)
    uploaderError,   \* the useState error of the two PdfUploaders
    revoked,         \* the files whose object URL was revoked
    uploads,         \* number of files Home has taken
    presses,         \* number of times handleProcessDiff passed line 53
    processor,       \* the DiffProcessor Home has mounted: the branch of the
                     \* render it is under and how far its processDiff is
    executions,      \* processDiff runs started since the last press
    offered,         \* the run whose results the download buttons hold,
                     \* counted from the last press, 0 when there are none
    pvFile,          \* PdfPreview: the prop file, NoFile for null, else
                     \* the document of the file
    numPages,        \* PdfPreview: useState numPages
    pageNumber,      \* PdfPreview: useState pageNumber
    loading,         \* PdfPreview: useState loading
    pvError,         \* PdfPreview: useState error, "none" for null, else
                     \* "load" or "render" after the message that is set
    pdfDocRef,       \* PdfPreview: pdfDocRef.current, NoFile for null
    renderTaskRef,   \* PdfPreview: renderTaskRef.current, 0 for null, else
                     \* the index of the task in tasks
    tasks,           \* the render tasks started on the canvas, each by its
                     \* status
    calls,           \* the calls of renderPage, each with its position
    loadPc,          \* position of the async function of the effect on file
    navDue,          \* TRUE when the effect on pageNumber is due
    loads            \* number of times the prop file has changed

runVars == <<file1, callbacks, runs, stats, isIdentical, madeBy>>
procVars == <<pc, file2, text1, text2, parts, segments, layout, outDoc,
              remote, thrown, isProcessing, error, htmlDiff,
              annotatedPdfUrl, calledBack, runVars>>
lineVars == <<linePc, lineIn, lineParts, lineIdx, rows, index1, index2>>
vars == <<pc, file2, text1, text2, parts, segments, layout, outDoc,
          remote, thrown, isProcessing, error, htmlDiff,
          annotatedPdfUrl, calledBack,
          file1, callbacks, runs, stats, isIdentical, madeBy,
          linePc, lineIn, lineParts, lineIdx, rows, index1, index2,
          sanPc, sanIn, sanOut,
          slots, status, homeError, uploaderError, revoked, uploads,
          presses, processor, executions, offered,
          pvFile, numPages, pageNumber, loading, pvError, pdfDocRef,
          renderTaskRef, tasks, calls, loadPc, navDue, loads>>

\* no DiffProcessor is mounted by Home
NoProcessor == [under |-> "none", run |-> "none"]

\* page.tsx, lines 25-28, and part_001, line 24: Home as it is constructed
HomeIdle ==
    /\ slots = [n \in 1..2 |-> 0]
    /\ status = "idle"
    /\ homeError = FALSE
    /\ uploaderError = [n \in 1..2 |-> FALSE]
    /\ revoked = {}
    /\ uploads = 0
    /\ presses = 0
    /\ processor = NoProcessor
    /\ executions = 0
    /\ offered = 0

\* the value null of the prop file and of pdfDocRef.current; a document has
\* the number of the change of the prop that gave it, and its pages
NoFile == [id |-> 0, pages |-> 0]

\* DiffProcessor.tsx, lines 588-594 and 636-640: a PdfPreview mounted
\* without a file, after its effects have run
PreviewIdle ==
    /\ pvFile = NoFile
    /\ numPages = 0
    /\ pageNumber = 1
    /\ loading = TRUE
    /\ pvError = "none"
    /\ pdfDocRef = NoFile
    /\ renderTaskRef = 0
    /\ tasks = <<>>
    /\ calls = <<>>
    /\ loadPc = "none"
    /\ navDue = FALSE
    /\ loads = 0

\* sanitizeTextForWinAnsi has not been called
SanitizeIdle == sanPc = "idle" /\ sanIn = <<>> /\ sanOut = <<>>

\* the variables outside the comparison pipeline, and their values while
\* nothing but the pipeline runs
sanVars == <<sanPc, sanIn, sanOut>>
homeVars == <<slots, status, homeError, uploaderError, revoked, uploads,
              presses, processor, executions, offered>>
previewVars == <<pvFile, numPages, pageNumber, loading, pvError, pdfDocRef,
                 renderTaskRef, tasks, calls, loadPc, navDue, loads>>
otherVars == <<sanVars, homeVars, previewVars>>
OthersIdle == SanitizeIdle /\ HomeIdle /\ PreviewIdle

---------------------------------------------------------------------------
(* Bounds of the model.                                                    *)

\* pages of document 2
MaxPages == 2
\* text items of one document, over all its pages
MaxRuns == 2
\* words of a text returned by the remote service
MaxWords == 1
\* lines of a text given to createLineDiff
MaxLines == 2
\* characters of the text item of a document with free geometry
MaxChars == 5
\* processDiff runs of one mounted DiffProcessor
MaxCalls == 2
\* code points of a string given to sanitizeTextForWinAnsi
MaxCodePoints == 3
\* files Home takes
MaxUploads == 3
\* presses of the Compare button
MaxPresses == 3
\* pages of a document given to PdfPreview
MaxPreviewPages == 2
\* changes of the prop file of a PdfPreview
MaxLoads == 2
\* calls of renderPage in a PdfPreview
MaxRenders == 4

---------------------------------------------------------------------------
(* Strings.                                                                *)

SP == " "
NL == "\n"
Letters == {"a", "b"}

Max(a, b) == IF a >= b THEN a ELSE b
Min(a, b) == IF a <= b THEN a ELSE b

RECURSIVE Join(_, _)
\* Array.prototype.join: the separator between the elements, not after them
Join(ss, sep) ==
    IF ss = <<>> THEN <<>>
    ELSE IF Len(ss) = 1 THEN Head(ss)
    ELSE Head(ss) \o sep \o Join(Tail(ss), sep)

---------------------------------------------------------------------------
(* Documents: what pdfjs and pdf-lib read from a file.                     *)

\* item.str of the text items
ItemStrs == {<<>>} \cup {<<c>> : c \in Letters}

\* the size (pdf-lib getSize) of the page of index i - 1: the pages of one
\* document are told apart by their size
PageWidth(i) == 500 + 10 * i
PageHeight(i) == 800 - 10 * i

RECURSIVE ItemLists(_, _)
\* the lists of item texts of exactly p pages and at most r text items
ItemLists(p, r) ==
    IF p = 0 THEN {<<>>}
    ELSE UNION {{<<its>> \o d : its \in [1..n -> ItemStrs],
                                d \in ItemLists(p - 1, r - n)} : n \in 0..r}

\* a text item of pdfjs: str, transform[4] and transform[5] (tx, ty), the
\* absolute value of transform[3] (hCanvas) and width (wCanvas)
RawItem(str, box) ==
    [str |-> str, tx |-> box.tx, ty |-> box.ty, hCanvas |-> box.hCanvas,
     wCanvas |-> box.wCanvas]

\* the box of the k-th text item of a page: the items of a page follow each
\* other on one line
BoxAt(k) == [tx |-> 40 * k, ty |-> 700, hCanvas |-> 12, wCanvas |-> 30]

\* a page of size w x h with the text items its; the viewport of scale 1
\* has the size of the page
PageOf(its, w, h) ==
    [items |-> its, width |-> w, height |-> h,
     viewportWidth |-> w, viewportHeight |-> h]

\* the documents of exactly p pages and at most r text items
DocsOf(p, r) ==
    {[i \in 1..p |->
         PageOf([k \in 1..Len(d[i]) |-> RawItem(d[i][k], BoxAt(k))],
                PageWidth(i), PageHeight(i))] : d \in ItemLists(p, r)}

RECURSIVE Letters2(_, _)
\* the letters of the text items of doc, from the item k of its first page
\* on, in reading order
Letters2(doc, k) ==
    IF doc = <<>> THEN <<>>
    ELSE IF k > Len(Head(doc).items) THEN Letters2(Tail(doc), 1)
    ELSE Head(doc).items[k].str \o Letters2(doc, k + 1)

\* the documents file2 can hold. The other inputs of a run are taken from
\* sets that do not change when the two letters are exchanged, so it is
\* enough that the first letter of file2, if it has one, is "a"
Docs ==
    {d \in UNION {DocsOf(p, MaxRuns) : p \in 1..MaxPages} :
        Letters2(d, 1) = <<>> \/ Head(Letters2(d, 1)) = "a"}

\* the documents file1 can hold besides file2's: one page of words
Docs1 ==
    {<<PageOf([k \in 1..Len(its) |-> RawItem(its[k], BoxAt(k))],
              PageWidth(1), PageHeight(1))>> :
        its \in UNION {[1..n -> {<<c>> : c \in Letters}] : n \in 0..MaxRuns}}

\* the word of n letters
Word(n) == [i \in 1..n |-> IF i % 2 = 1 THEN "a" ELSE "b"]

\* the boxes of a text item with free geometry: at the left edge or not, at
\* the bottom of the page, inside it or reaching over its top, flat or
\* not, without width or not
Boxes ==
    [tx : {0, 50}, ty : {0, 700, 785}, hCanvas : {1, 12}, wCanvas : {0, 60}]

\* the documents of one page with one text item of any of these boxes
GeomDocs ==
    {<<PageOf(<<RawItem(Word(n), box)>>, PageWidth(1), PageHeight(1))>> :
        n \in 0..MaxChars, box \in Boxes}

\* the texts the remote service can return: words separated by one space
RemoteTexts ==
    {Join(w, <<SP>>) :
        w \in UNION {[1..n -> {<<c>> : c \in Letters}] : n \in 0..MaxWords}}

---------------------------------------------------------------------------
(* Text extraction (DiffProcessor.tsx).                                    *)

\* textContent.items.map((item) => item.str)
ItemTexts(page) == [k \in 1..Len(page.items) |-> page.items[k].str]

RECURSIVE extractTextLocalFallback(_)
\* fullText += pageText + "\n\n" for every page, pageText the items joined
\* by one space
extractTextLocalFallback(doc) ==
    IF doc = <<>> THEN <<>>
    ELSE Join(ItemTexts(Head(doc)), <<SP>>) \o <<NL, NL>>
            \o extractTextLocalFallback(Tail(doc))

\* ItemAppend with a slip: no separator after the text of the item
ItemAppendNoSeparator(str) == str

\* what the loop over raw appends to assembled for one item
ItemAppend(str) == str \o <<SP>>

\* PageAppend with a slip: one newline after a page
PageAppendOneNewline == <<NL>>

\* what is appended to assembled after the items of a page
PageAppend == <<NL, NL>>

RECURSIVE LayoutItems(_, _, _, _)
\* the loop `for (const it of raw)` of the page `page`: acc is [items, text].
\* rx and ry are quotients of equal numbers in every document of the model
LayoutItems(acc, raw, pageIndex, page) ==
    IF raw = <<>> THEN acc
    ELSE LET it == Head(raw)
             str == it.str
             start == Len(acc.text)
             assembled == acc.text \o ItemAppend(str)
             end == Len(assembled)
             rx == page.width \div page.viewportWidth
             ry == page.height \div page.viewportHeight
             xPt == it.tx * rx
             yTopPt == it.ty * ry
             hPt == it.hCanvas * ry
             wPt == Max(1, it.wCanvas * rx)
             yBottomPt == Max(0, page.height - (yTopPt + hPt))
         IN  LayoutItems(
                 [items |-> Append(acc.items,
                                   [start |-> start, end |-> end,
                                    pageIndex |-> pageIndex,
                                    x |-> xPt, y |-> yBottomPt,
                                    width |-> wPt, height |-> hPt]),
                  text |-> assembled],
                 Tail(raw), pageIndex, page)

RECURSIVE LayoutPages(_, _, _)
\* the loop `for (let i = 1; i <= pdf.numPages; i++)`
LayoutPages(acc, doc, i) ==
    IF i > Len(doc) THEN acc
    ELSE LET page == doc[i]
             pageIndex == i - 1
             afterItems ==
                 LayoutItems([items |-> acc.items, text |-> acc.text],
                             page.items, pageIndex, page)
         IN  LayoutPages(
                 [items |-> afterItems.items,
                  text |-> afterItems.text \o PageAppend,
                  pageHeights |-> Append(acc.pageHeights, page.height),
                  pageWidths |-> Append(acc.pageWidths, page.width)],
                 doc, i + 1)

EmptyLayout ==
    [items |-> <<>>, text |-> <<>>, pageHeights |-> <<>>, pageWidths |-> <<>>]

collectSecondTextLayout(doc) == LayoutPages(EmptyLayout, doc, 1)

---------------------------------------------------------------------------
(* The diff library (diff.diffWords, diff.diffLines).  The library is not  *)
(* part of the repository; it is modelled by its contract: the tokens of   *)
(* the two strings are aligned on a longest common subsequence, runs of    *)
(* the same kind are merged into one change object, the values of the      *)
(* objects that are not removed concatenate to the new string and those    *)
(* that are not added to the old string.  Which longest common subsequence *)
(* is taken, and whether the removed or the added object of a replacement  *)
(* comes first, differs between versions of the library: both are left     *)
(* open.                                                                   *)

CharClass(c) == IF c \in Letters THEN "word" ELSE IF c = SP THEN "space" ELSE "newline"

RECURSIVE TokenizeWords(_)
\* words and runs of spaces are tokens, every line break is a token
TokenizeWords(s) ==
    IF s = <<>> THEN <<>>
    ELSE LET c == Head(s)
             rest == TokenizeWords(Tail(s))
         IN  IF /\ rest # <<>>
                /\ CharClass(c) # "newline"
                /\ CharClass(Head(rest)[1]) = CharClass(c)
             THEN <<(<<c>> \o Head(rest))>> \o Tail(rest)
             ELSE <<(<<c>>)>> \o rest

RECURSIVE TokenizeLines(_)
\* every line with its line break is a token; a last line without line
\* break is a token too
TokenizeLines(s) ==
    IF s = <<>> THEN <<>>
    ELSE LET c == Head(s)
             rest == TokenizeLines(Tail(s))
         IN  IF c = NL \/ rest = <<>>
             THEN <<(<<c>>)>> \o rest
             ELSE <<(<<c>> \o Head(rest))>> \o Tail(rest)

RECURSIVE LcsRow(_, _, _, _)
\* one row of the table of longest-common-subsequence lengths: cur[j + 1] is
\* the length for the tokens of x up to xi and the first j tokens of y
LcsRow(prev, xi, y, cur) ==
    IF Len(cur) = Len(y) + 1 THEN cur
    ELSE LET j == Len(cur)
             v == IF xi = y[j] THEN prev[j] + 1
                  ELSE Max(prev[j + 1], cur[j])
         IN  LcsRow(prev, xi, y, Append(cur, v))

RECURSIVE LcsTable(_, _, _)
\* rows 0..Len(x) of the table, tab[i + 1][j + 1] for the prefixes i and j
LcsTable(x, y, tab) ==
    IF Len(tab) = Len(x) + 1 THEN tab
    ELSE LcsTable(x, y,
             Append(tab, LcsRow(tab[Len(tab)], x[Len(tab)], y, <<0>>)))

RECURSIVE EditScripts(_, _, _, _, _, _, _)
\* the edit scripts of the prefixes i of x and j of y that keep a longest
\* common subsequence; nxt is the operation that follows, and first the kind
\* that comes first in a replacement
EditScripts(x, y, tab, i, j, nxt, first) ==
    IF i = 0 /\ j = 0 THEN {<<>>}
    ELSE LET here == tab[i + 1][j + 1]
             common ==
                 IF i > 0 /\ j > 0 /\ x[i] = y[j] /\ tab[i][j] + 1 = here
                 THEN {Append(s, "common") :
                          s \in EditScripts(x, y, tab, i - 1, j - 1, "common", first)}
                 ELSE {}
             removed ==
                 IF i > 0 /\ tab[i][j + 1] = here
                      /\ ~(nxt = "added" /\ first = "added")
                 THEN {Append(s, "removed") :
                          s \in EditScripts(x, y, tab, i - 1, j, "removed", first)}
                 ELSE {}
             added ==
                 IF j > 0 /\ tab[i + 1][j] = here
                      /\ ~(nxt = "removed" /\ first = "removed")
                 THEN {Append(s, "added") :
                          s \in EditScripts(x, y, tab, i, j - 1, "added", first)}
                 ELSE {}
         IN  common \cup removed \cup added

RECURSIVE ChangeObjects(_, _, _, _)
\* the change objects of an edit script: runs of one kind merged, the value
\* of a common object taken from the new string
ChangeObjects(script, x, y, acc) ==
    IF script = <<>> THEN acc
    ELSE LET op == Head(script)
             tok == IF op = "removed" THEN Head(x) ELSE Head(y)
             obj == [added |-> op = "added", removed |-> op = "removed",
                     value |-> tok]
             last == IF acc = <<>> THEN obj ELSE acc[Len(acc)]
             merged ==
                 IF acc # <<>> /\ last.added = obj.added
                               /\ last.removed = obj.removed
                 THEN [acc EXCEPT ![Len(acc)].value = @ \o tok]
                 ELSE Append(acc, obj)
         IN  ChangeObjects(Tail(script),
                           IF op = "added" THEN x ELSE Tail(x),
                           IF op = "removed" THEN y ELSE Tail(y),
                           merged)

\* the results the library can give for the token sequences x and y
DiffTokens(x, y) ==
    LET zeroRow == [j \in 1..(Len(y) + 1) |-> 0]
        tab == LcsTable(x, y, <<zeroRow>>)
    IN  {ChangeObjects(s, x, y, <<>>) :
            s \in UNION {EditScripts(x, y, tab, Len(x), Len(y), "end", first) :
                            first \in {"removed", "added"}}}

\* diff.diffWords(t1, t2)
diffWords(t1, t2) == DiffTokens(TokenizeWords(t1), TokenizeWords(t2))

\* diff.diffLines(text1, text2)
diffLines(t1, t2) == DiffTokens(TokenizeLines(t1), TokenizeLines(t2))

---------------------------------------------------------------------------
(* computeAddedAndModifiedSegments (DiffProcessor.tsx).                    *)

\* PartIsModified with a slip: only the next part is looked at
PartIsModifiedNextOnly(ps, i) == i < Len(ps) /\ ps[i + 1].removed

\* (prev && prev.removed) || (next && next.removed), for the part of index
\* i - 1
PartIsModified(ps, i) ==
    \/ (i > 1 /\ ps[i - 1].removed)
    \/ (i < Len(ps) /\ ps[i + 1].removed)

\* Pos2After with a slip: a removed part advances pos2 too
Pos2AfterCountingRemoved(p, pos2) == pos2 + Len(p.value)

\* Pos2After with a slip: an unchanged part does not advance pos2
Pos2AfterSkippingUnchanged(p, pos2) ==
    IF p.added THEN pos2 + Len(p.value) ELSE pos2

\* pos2 after the part p has been walked
Pos2After(p, pos2) ==
    IF p.added THEN pos2 + Len(p.value)
    ELSE IF p.removed THEN pos2
    ELSE pos2 + Len(p.value)

\* SegmentsAfter with a slip: every part that is not removed gives a segment
SegmentsAfterNotRemoved(ps, i, pos2, segs) ==
    IF ~ps[i].removed
    THEN Append(segs, [start |-> pos2, end |-> pos2 + Len(ps[i].value),
                       kind |-> IF PartIsModified(ps, i) THEN "modified"
                                ELSE "added"])
    ELSE segs

\* SegmentsAfter with a slip: a removed part gives a segment too
SegmentsAfterEveryChange(ps, i, pos2, segs) ==
    IF ps[i].added \/ ps[i].removed
    THEN Append(segs, [start |-> pos2, end |-> pos2 + Len(ps[i].value),
                       kind |-> IF PartIsModified(ps, i) THEN "modified"
                                ELSE "added"])
    ELSE segs

\* what the part of index i - 1 appends to segments
SegmentsAfter(ps, i, pos2, segs) ==
    IF ps[i].added
    THEN Append(segs, [start |-> pos2, end |-> pos2 + Len(ps[i].value),
                       kind |-> IF PartIsModified(ps, i) THEN "modified"
                                ELSE "added"])
    ELSE segs

RECURSIVE WalkParts(_, _, _, _)
\* the loop over parts, from the part of index i - 1 on
WalkParts(ps, i, pos2, segs) ==
    IF i > Len(ps) THEN [segments |-> segs, pos2 |-> pos2]
    ELSE WalkParts(ps, i + 1, Pos2After(ps[i], pos2),
                   SegmentsAfter(ps, i, pos2, segs))

\* the segments computed from the parts ps that diffWords returned
SegmentsOfParts(ps) == WalkParts(ps, 1, 0, <<>>).segments

---------------------------------------------------------------------------
(* createAnnotatedSecondPdf (DiffProcessor.tsx).                           *)

\* SegmentColor with a slip: the two colors are exchanged
SegmentColorExchanged(seg) == IF seg.kind = "modified" THEN "red" ELSE "yellow"

\* rgb(1, 1, 0) for a modified segment, rgb(0.9, 0, 0) otherwise
SegmentColor(seg) == IF seg.kind = "modified" THEN "yellow" ELSE "red"

OverlapStart(seg, it) == Max(seg.start, it.start)

\* OverlapEnd with a slip: the separator of the run is left out
OverlapEndBeforeSeparator(seg, it) == Min(seg.end, it.end - 1)

OverlapEnd(seg, it) == Min(seg.end, it.end)

\* Overlaps with a slip: a run that only touches the segment is kept
OverlapsOrTouches(seg, it) == ~(OverlapEnd(seg, it) < OverlapStart(seg, it))

\* `if (overlapEnd <= overlapStart) continue;` is not taken
Overlaps(seg, it) == ~(OverlapEnd(seg, it) <= OverlapStart(seg, it))

\* CopiedPages with a slip: the pages are added in reverse order
CopiedPagesReversed(doc) ==
    [i \in 1..Len(doc) |->
        [width |-> doc[Len(doc) + 1 - i].width,
         height |-> doc[Len(doc) + 1 - i].height, rects |-> <<>>]]

\* outDoc after copyPages and addPage: the pages of inDoc in index order
CopiedPages(doc) ==
    [i \in 1..Len(doc) |->
        [width |-> doc[i].width, height |-> doc[i].height, rects |-> <<>>]]

\* a number that need not be an integer: num / den, den > 0
Frac(n, d) == [num |-> n, den |-> d]

\* two such numbers are equal
FracEq(a, b) == a.num * b.den = b.num * a.den

\* (overlapStart - it.start) / Math.max(1, it.end - it.start)
FracStart(seg, it) ==
    Frac(OverlapStart(seg, it) - it.start, Max(1, it.end - it.start))

\* FracWidth with a slip: the length of the segment, not of the overlap
FracWidthOfSegment(seg, it) ==
    Frac(seg.end - seg.start, Max(1, it.end - it.start))

\* (overlapEnd - overlapStart) / Math.max(1, it.end - it.start)
FracWidth(seg, it) ==
    Frac(OverlapEnd(seg, it) - OverlapStart(seg, it),
         Max(1, it.end - it.start))

\* RectX with a slip: the x of the run is left out
RectXFromPageEdge(seg, it) ==
    Frac(it.width * FracStart(seg, it).num, FracStart(seg, it).den)

\* it.x + it.width * fracStart
RectX(seg, it) ==
    Frac(it.x * FracStart(seg, it).den + it.width * FracStart(seg, it).num,
         FracStart(seg, it).den)

\* it.width * fracWidth
RectW(seg, it) ==
    Frac(it.width * FracWidth(seg, it).num, FracWidth(seg, it).den)

\* Math.max(0, pageH - (it.y + it.height))
RectYBottom(pageH, it) == Max(0, pageH - (it.y + it.height))

\* Math.max(2, it.height * 1.1)
RectH(it) == Frac(Max(20, it.height * 11), 10)

\* page.drawRectangle on the page of index it.pageIndex; the rectangle
\* keeps the overlap [overlapStart, overlapEnd) that its x and width are
\* computed from, and the opacities in percent
DrawRectangle(out, seg, it) ==
    [out EXCEPT ![it.pageIndex + 1].rects =
        Append(@, [x |-> RectX(seg, it),
                   y |-> RectYBottom(out[it.pageIndex + 1].height, it),
                   width |-> RectW(seg, it),
                   height |-> RectH(it),
                   color |-> SegmentColor(seg), opacity |-> 25,
                   borderColor |-> SegmentColor(seg), borderOpacity |-> 25,
                   overlapStart |-> OverlapStart(seg, it),
                   overlapEnd |-> OverlapEnd(seg, it)])]

RECURSIVE DrawItems(_, _, _, _)
\* the loop `for (const it of layout.items)` for one segment
DrawItems(out, seg, items, k) ==
    IF k > Len(items) THEN out
    ELSE DrawItems(IF Overlaps(seg, items[k])
                   THEN DrawRectangle(out, seg, items[k]) ELSE out,
                   seg, items, k + 1)

RECURSIVE DrawSegments(_, _, _, _)
\* the loop `for (const seg of segments)`
DrawSegments(out, segs, items, s) ==
    IF s > Len(segs) THEN out
    ELSE DrawSegments(DrawItems(out, segs[s], items, 1), segs, items, s + 1)

---------------------------------------------------------------------------
(* processDiff (DiffProcessor.tsx): one run, both files present.  An       *)
(* action is the code between two awaits.                                  *)

\* the ways the remote compare call fails. "thrown": compareViaAPI throws
\* (fetch rejects, response.ok is false, the body is no JSON, data.success
\* is false); "malformed": compareViaAPI returns a body without text1 or
\* text2, and line 407 or 409 throws
RemoteFailures == {"thrown", "malformed"}

\* no run has set the report or the URL of the annotated document
NoRun == [htmlDiff |-> 0, annotatedPdfUrl |-> 0]

\* the state of a mounted DiffProcessor before processDiff has run: f1
\* tells whether file1 is set, d is the document of file2 or <<>> when file2
\* is not set, cb tells whether the callbacks were passed; no createLineDiff
\* running
InitOfFiles(f1, d, cb) ==
    /\ pc = "idle"
    /\ file2 = d
    /\ text1 = <<>>
    /\ text2 = <<>>
    /\ parts = <<>>
    /\ segments = <<>>
    /\ layout = EmptyLayout
    /\ outDoc = <<>>
    /\ remote = "pending"
    /\ thrown = "none"
    /\ isProcessing = FALSE
    /\ error = FALSE
    /\ htmlDiff = FALSE
    /\ annotatedPdfUrl = FALSE
    /\ calledBack = <<>>
    /\ file1 = f1
    /\ callbacks = cb
    /\ runs = 0
    /\ stats = 0
    /\ isIdentical = 0
    /\ madeBy = NoRun
    /\ linePc = "idle"
    /\ lineIn = <<>>
    /\ lineParts = <<>>
    /\ lineIdx = 0
    /\ rows = <<>>
    /\ index1 = 0
    /\ index2 = 0
    /\ OthersIdle

\* the same with both files set and the callbacks of the page passed
InitOf(d) == InitOfFiles(TRUE, d, TRUE)

Init == \E d \in Docs : InitOf(d)

\* lines 389-405: the state is reset and the remote call is sent
ProcessDiffStart ==
    /\ pc = "idle"
    /\ file1 /\ file2 # <<>>
    /\ isProcessing' = TRUE
    /\ error' = FALSE
    /\ htmlDiff' = FALSE
    /\ annotatedPdfUrl' = FALSE
    /\ pc' = "api"
    /\ UNCHANGED <<file2, text1, text2, parts, segments, layout, outDoc,
                   remote, thrown, calledBack>>
    /\ UNCHANGED lineVars
    /\ UNCHANGED otherVars
    /\ runs' = runs + 1
    /\ madeBy' = NoRun
    /\ UNCHANGED <<file1, callbacks, stats, isIdentical>>

\* lines 443-450 and 206-209: the report is set, createAnnotatedSecondPdf
\* computes the segments of t1 and t2 and awaits the layout
StartAnnotation(t1, t2) ==
    /\ text1' = t1
    /\ text2' = t2
    /\ htmlDiff' = TRUE
    /\ madeBy' = [madeBy EXCEPT !.htmlDiff = runs]
    /\ \E ps \in diffWords(t1, t2) :
          /\ parts' = ps
          /\ segments' = SegmentsOfParts(ps)
    /\ pc' = "layout"

\* lines 98-104 and 406-418: the remote call returned the two texts
CompareViaAPIOk ==
    /\ pc = "api"
    /\ remote' = "ok"
    /\ \E t1 \in RemoteTexts, t2 \in RemoteTexts : StartAnnotation(t1, t2)
    /\ UNCHANGED <<file2, layout, outDoc, thrown, isProcessing, error,
                   annotatedPdfUrl, calledBack>>
    /\ UNCHANGED lineVars
    /\ UNCHANGED otherVars
    /\ isIdentical' = runs
    /\ stats' = runs
    /\ UNCHANGED <<file1, callbacks, runs>>

\* CatchError with a slip: onError is not called
CatchErrorWithoutCallback(step) ==
    /\ thrown' = step
    /\ error' = TRUE
    /\ calledBack' = calledBack
    /\ isProcessing' = FALSE
    /\ pc' = "error"

\* lines 456-463: the outer catch
CatchError(step) ==
    /\ thrown' = step
    /\ error' = TRUE
    /\ calledBack' = IF callbacks THEN Append(calledBack, "onError")
                     ELSE calledBack
    /\ isProcessing' = FALSE
    /\ pc' = "error"

\* CompareViaAPIFail with a slip: what the remote call threw reaches the
\* outer catch
CompareViaAPIFailRethrown ==
    /\ pc = "api"
    /\ \E f \in RemoteFailures : remote' = f
    /\ CatchError("remote")
    /\ UNCHANGED <<file2, text1, text2, parts, segments, layout, outDoc,
                   htmlDiff, annotatedPdfUrl>>
    /\ UNCHANGED lineVars
    /\ UNCHANGED otherVars
    /\ UNCHANGED runVars

\* lines 419-429: whatever the remote call threw is caught, and the local
\* extraction of file1 starts
CompareViaAPIFail ==
    /\ pc = "api"
    /\ \E f \in RemoteFailures : remote' = f
    /\ pc' = "local1"
    /\ UNCHANGED <<file2, text1, text2, parts, segments, layout, outDoc,
                   thrown, isProcessing, error, htmlDiff, annotatedPdfUrl,
                   calledBack>>
    /\ UNCHANGED lineVars
    /\ UNCHANGED otherVars
    /\ UNCHANGED runVars

\* ExtractLocal1 with a slip: the annotation starts without the text of
\* file2
ExtractLocal1WithoutFile2 ==
    /\ pc = "local1"
    /\ \E d \in Docs1 \cup {file2} :
          StartAnnotation(extractTextLocalFallback(d), <<>>)
    /\ UNCHANGED <<file2, layout, outDoc, remote, thrown, isProcessing,
                   error, annotatedPdfUrl, calledBack>>
    /\ UNCHANGED lineVars
    /\ UNCHANGED otherVars
    /\ isIdentical' = runs
    /\ UNCHANGED <<file1, callbacks, runs, stats>>

\* line 429: file1 is read; it holds the document of file2 or a document of
\* one page
ExtractLocal1 ==
    /\ pc = "local1"
    /\ \E d \in Docs1 \cup {file2} : text1' = extractTextLocalFallback(d)
    /\ pc' = "local2"
    /\ UNCHANGED <<file2, text2, parts, segments, layout, outDoc, remote,
                   thrown, isProcessing, error, htmlDiff, annotatedPdfUrl,
                   calledBack>>
    /\ UNCHANGED lineVars
    /\ UNCHANGED otherVars
    /\ UNCHANGED runVars

\* lines 430-443: file2 is read
ExtractLocal2 ==
    /\ pc = "local2"
    /\ StartAnnotation(text1, extractTextLocalFallback(file2))
    /\ UNCHANGED <<file2, layout, outDoc, remote, thrown, isProcessing,
                   error, annotatedPdfUrl, calledBack>>
    /\ UNCHANGED lineVars
    /\ UNCHANGED otherVars
    /\ isIdentical' = runs
    /\ UNCHANGED <<file1, callbacks, runs, stats>>

\* line 209: collectSecondTextLayout returned
LayoutCollected ==
    /\ pc = "layout"
    /\ layout' = collectSecondTextLayout(file2)
    /\ pc' = "copy"
    /\ UNCHANGED <<file2, text1, text2, parts, segments, outDoc, remote,
                   thrown, isProcessing, error, htmlDiff, annotatedPdfUrl,
                   calledBack>>
    /\ UNCHANGED lineVars
    /\ UNCHANGED otherVars
    /\ UNCHANGED runVars

\* lines 211-248: the pages are copied and the rectangles drawn
DrawAnnotations ==
    /\ pc = "copy"
    /\ outDoc' = DrawSegments(CopiedPages(file2), segments, layout.items, 1)
    /\ pc' = "save"
    /\ UNCHANGED <<file2, text1, text2, parts, segments, layout, remote,
                   thrown, isProcessing, error, htmlDiff, annotatedPdfUrl,
                   calledBack>>
    /\ UNCHANGED lineVars
    /\ UNCHANGED otherVars
    /\ UNCHANGED runVars

\* lines 250-251, 451-455 and 463: the annotated document is saved
ProcessDiffComplete ==
    /\ pc = "save"
    /\ annotatedPdfUrl' = TRUE
    /\ calledBack' = IF callbacks THEN Append(calledBack, "onComplete")
                     ELSE calledBack
    /\ isProcessing' = FALSE
    /\ pc' = "done"
    /\ UNCHANGED <<file2, text1, text2, parts, segments, layout, outDoc,
                   remote, thrown, error, htmlDiff>>
    /\ UNCHANGED lineVars
    /\ UNCHANGED otherVars
    /\ madeBy' = [madeBy EXCEPT !.annotatedPdfUrl = runs]
    /\ UNCHANGED <<file1, callbacks, runs, stats, isIdentical>>

\* lines 429-430: pdfjs cannot read file1 or file2
ExtractLocalFail ==
    /\ pc \in {"local1", "local2"}
    /\ CatchError("local")
    /\ UNCHANGED <<file2, text1, text2, parts, segments, layout, outDoc,
                   remote, htmlDiff, annotatedPdfUrl>>
    /\ UNCHANGED lineVars
    /\ UNCHANGED otherVars
    /\ UNCHANGED runVars

\* lines 305-310: pdfjs or pdf-lib cannot read file2
AnnotateFail ==
    /\ pc = "layout"
    /\ CatchError("annotate")
    /\ UNCHANGED <<file2, text1, text2, parts, segments, layout, outDoc,
                   remote, htmlDiff, annotatedPdfUrl>>
    /\ UNCHANGED lineVars
    /\ UNCHANGED otherVars
    /\ UNCHANGED runVars

Next ==
    \/ ProcessDiffStart
    \/ CompareViaAPIOk
    \/ CompareViaAPIFail
    \/ ExtractLocal1
    \/ ExtractLocal2
    \/ LayoutCollected
    \/ DrawAnnotations
    \/ ProcessDiffComplete
    \/ ExtractLocalFail
    \/ AnnotateFail

Spec == Init /\ [][Next]_vars

---------------------------------------------------------------------------
(* What DiffProcessor renders (DiffProcessor.tsx, lines 481-566).          *)

\* Render with a slip: the report is looked at before the error
RenderReportFirst ==
    IF isProcessing THEN "processing"
    ELSE IF htmlDiff THEN "report"
    ELSE IF error THEN "error"
    ELSE "nothing"

\* the branch of the render that returns: the spinner, the error message,
\* the report with its download buttons, or null
Render ==
    IF isProcessing THEN "processing"
    ELSE IF error THEN "error"
    ELSE IF htmlDiff THEN "report"
    ELSE "nothing"

---------------------------------------------------------------------------
(* createLineDiff (part_002, lines 178-228): one call.                     *)

RECURSIVE Split(_, _)
\* String.prototype.split(sep) for a separator of one character: the pieces
\* between the separators, "" after a last separator
Split(s, sep) ==
    IF s = <<>> THEN <<(<<>>)>>
    ELSE LET rest == Split(Tail(s), sep)
         IN  IF Head(s) = sep THEN <<(<<>>)>> \o rest
             ELSE <<(<<Head(s)>> \o Head(rest))>> \o Tail(rest)

\* the texts given to createLineDiff: at most MaxLines lines, the last one
\* with or without its line break
LineTexts ==
    LET Lines == {<<>>} \cup {<<c>> : c \in Letters}
        Bodies == UNION {[1..n -> Lines] : n \in 0..MaxLines}
    IN  {Join(b, <<NL>>) : b \in Bodies}
            \cup {Join(b, <<NL>>) \o <<NL>> : b \in Bodies}

\* SkippedLine with a slip: no line is skipped
SkippedLineNever(lines, i) == FALSE

\* `if (i === lines.length - 1 && !lines[i]) continue;` is taken for the
\* line of index i - 1
SkippedLine(lines, i) == i = Len(lines) /\ lines[i] = <<>>

\* RowOf with a slip: a removed row takes a line number of document 2
RowOfNumberedBothSides(part, line, i1, i2) ==
    IF ~part.added /\ ~part.removed
    THEN [lineNumber1 |-> i1 + 1, lineNumber2 |-> i2 + 1,
          text1 |-> line, text2 |-> line, type |-> "unchanged"]
    ELSE IF part.removed
    THEN [lineNumber1 |-> i1 + 1, lineNumber2 |-> i2 + 1,
          text1 |-> line, text2 |-> <<>>, type |-> "removed"]
    ELSE [lineNumber1 |-> -1, lineNumber2 |-> i2 + 1,
          text1 |-> <<>>, text2 |-> line, type |-> "added"]

\* the row pushed for the line `line` of the block `part`
RowOf(part, line, i1, i2) ==
    IF ~part.added /\ ~part.removed
    THEN [lineNumber1 |-> i1 + 1, lineNumber2 |-> i2 + 1,
          text1 |-> line, text2 |-> line, type |-> "unchanged"]
    ELSE IF part.removed
    THEN [lineNumber1 |-> i1 + 1, lineNumber2 |-> -1,
          text1 |-> line, text2 |-> <<>>, type |-> "removed"]
    ELSE [lineNumber1 |-> -1, lineNumber2 |-> i2 + 1,
          text1 |-> <<>>, text2 |-> line, type |-> "added"]

RECURSIVE WalkLines(_, _, _, _)
\* the loop over the lines of one block, from the line of index i - 1 on;
\* acc is [rows, index1, index2]
WalkLines(part, lines, i, acc) ==
    IF i > Len(lines) THEN acc
    ELSE IF SkippedLine(lines, i) THEN WalkLines(part, lines, i + 1, acc)
    ELSE WalkLines(part, lines, i + 1,
             [rows |-> Append(acc.rows,
                              RowOf(part, lines[i], acc.index1, acc.index2)),
              index1 |-> IF part.added THEN acc.index1 ELSE acc.index1 + 1,
              index2 |-> IF part.removed THEN acc.index2 ELSE acc.index2 + 1])

\* line 179: diff.diffLines(text1, text2)
CreateLineDiffStart ==
    /\ linePc = "idle"
    /\ \E ps \in diffLines(lineIn[1], lineIn[2]) : lineParts' = ps
    /\ linePc' = "loop"
    /\ UNCHANGED <<lineIn, lineIdx, rows, index1, index2>>
    /\ UNCHANGED procVars
    /\ UNCHANGED otherVars

\* lines 184-225: one iteration of `for (const part of differences)`
CreateLineDiffBlock ==
    /\ linePc = "loop"
    /\ lineIdx < Len(lineParts)
    /\ LET part == lineParts[lineIdx + 1]
           after == WalkLines(part, Split(part.value, NL), 1,
                        [rows |-> rows, index1 |-> index1, index2 |-> index2])
       IN  /\ rows' = after.rows
           /\ index1' = after.index1
           /\ index2' = after.index2
    /\ lineIdx' = lineIdx + 1
    /\ UNCHANGED <<linePc, lineIn, lineParts>>
    /\ UNCHANGED procVars
    /\ UNCHANGED otherVars

\* line 227: return result
CreateLineDiffReturn ==
    /\ linePc = "loop"
    /\ lineIdx = Len(lineParts)
    /\ linePc' = "returned"
    /\ UNCHANGED <<lineIn, lineParts, lineIdx, rows, index1, index2>>
    /\ UNCHANGED procVars
    /\ UNCHANGED otherVars

InitLine ==
    /\ pc = "idle"
    /\ file2 = <<>>
    /\ text1 = <<>>
    /\ text2 = <<>>
    /\ parts = <<>>
    /\ segments = <<>>
    /\ layout = EmptyLayout
    /\ outDoc = <<>>
    /\ remote = "pending"
    /\ thrown = "none"
    /\ isProcessing = FALSE
    /\ error = FALSE
    /\ htmlDiff = FALSE
    /\ annotatedPdfUrl = FALSE
    /\ calledBack = <<>>
    /\ file1 = FALSE
    /\ callbacks = FALSE
    /\ runs = 0
    /\ stats = 0
    /\ isIdentical = 0
    /\ madeBy = NoRun
    /\ linePc = "idle"
    /\ lineIn \in LineTexts \X LineTexts
    /\ lineParts = <<>>
    /\ lineIdx = 0
    /\ rows = <<>>
    /\ index1 = 0
    /\ index2 = 0
    /\ OthersIdle

NextLine ==
    \/ CreateLineDiffStart
    \/ CreateLineDiffBlock
    \/ CreateLineDiffReturn

SpecLine == InitLine /\ [][NextLine]_vars

---------------------------------------------------------------------------
(* Properties of one processDiff run.                                      *)

\* computeAddedAndModifiedSegments has just returned: text1, text2, parts
\* and segments are those of the call, and no later step of the run changes
\* them
SegmentsComputed == pc = "layout"

\* computeAddedAndModifiedSegments has returned and nothing has thrown since
SegmentsKept == pc \in {"layout", "copy", "save", "done"}

\* the rectangles have been drawn on outDoc
RectanglesDrawn == pc \in {"save", "done"}

\* the indices of the added parts
AddedParts(ps) == {i \in 1..Len(ps) : ps[i].added}

\* the index of the k-th added part
KthAdded(ps, k) ==
    CHOOSE i \in AddedParts(ps) :
        Cardinality({j \in AddedParts(ps) : j <= i}) = k

\* the number of rectangles on the pages of out
RECURSIVE RectangleCount(_)
RectangleCount(out) ==
    IF out = <<>> THEN 0 ELSE Len(Head(out).rects) + RectangleCount(Tail(out))

\* C1: every segment is cut out of an added part, and the characters of
\* text2 at [start, end) are the value of that part.
OffsetConservation ==
    SegmentsComputed =>
        \A k \in 1..Len(segments) :
            /\ k <= Cardinality(AddedParts(parts))
            /\ segments[k].end <= Len(text2)
            /\ SubSeq(text2, segments[k].start + 1, segments[k].end)
                   = parts[KthAdded(parts, k)].value

\* C1: a segment that starts after unchanged text, with a removed part in
\* the diff.
OffsetConservationWitness ==
    /\ SegmentsComputed
    /\ \E k \in 1..Len(segments) : segments[k].start > 0
    /\ \E i \in 1..Len(parts) : parts[i].removed

\* C2: on the local path the text given to the diff for document 2 is the
\* assembled text the run offsets refer to.
LocalTextIsAssembledText ==
    (remote \in RemoteFailures /\ pc \in {"copy", "save", "done"})
        => text2 = layout.text

\* C3: equal texts give no segment and no rectangle.
Identity ==
    (SegmentsKept /\ text1 = text2) =>
        /\ segments = <<>>
        /\ RectanglesDrawn => RectangleCount(outDoc) = 0

\* C3: a document with text compared with itself, up to the drawing.
IdentityWitness ==
    /\ RectanglesDrawn
    /\ text1 = text2
    /\ Len(text2) > 2
    /\ layout.items # <<>>

\* C4: every run is non-empty in offset space and ends before the next one
\* starts.
MonotonicOffsets ==
    \A i \in 1..Len(layout.items) :
        /\ layout.items[i].end > layout.items[i].start
        /\ i < Len(layout.items) =>
               layout.items[i].end <= layout.items[i + 1].start

\* C4: two runs on two pages, the first of an empty text.
MonotonicOffsetsWitness ==
    /\ Len(layout.items) = 2
    /\ layout.items[1].pageIndex # layout.items[2].pageIndex
    /\ Len(file2[1].items) = 1
    /\ file2[1].items[1].str = <<>>

\* C6: the output document has the pages of document 2, in order and with
\* their sizes.
PageFidelity ==
    RectanglesDrawn =>
        /\ Len(outDoc) = Len(file2)
        /\ \A i \in 1..Len(outDoc) :
              /\ outDoc[i].width = file2[i].width
              /\ outDoc[i].height = file2[i].height

\* C6: a document of two pages with a rectangle on the second.
PageFidelityWitness ==
    /\ pc = "done"
    /\ Len(outDoc) = 2
    /\ outDoc[2].rects # <<>>

\* the texts of the example: "a b", "a a", each with the page break of the
\* local extraction
ReplacementOld == <<"a", SP, "b", NL, NL>>
ReplacementNew == <<"a", SP, "a", NL, NL>>

\* C7: a segment is modified exactly when the part before or after its
\* added part is removed, and added otherwise; "a b" against "a a" gives
\* one modified segment for the second word.
ReplacementRule ==
    SegmentsComputed =>
        /\ \A k \in 1..Len(segments) :
              LET i == KthAdded(parts, k)
                  nextToRemoved ==
                      \/ (i > 1 /\ parts[i - 1].removed)
                      \/ (i < Len(parts) /\ parts[i + 1].removed)
              IN  segments[k].kind =
                      IF nextToRemoved THEN "modified" ELSE "added"
        /\ (text1 = ReplacementOld /\ text2 = ReplacementNew) =>
              segments = <<[start |-> 2, end |-> 3, kind |-> "modified"]>>

\* C7: the example, with the removed part before the added one.
ReplacementRuleWitness ==
    /\ SegmentsComputed
    /\ text1 = ReplacementOld
    /\ text2 = ReplacementNew
    /\ Len(parts) > 2
    /\ parts[2].removed
    /\ parts[3].added

\* C8: one segment per added part, none for the other parts, and nothing
\* at all for an empty text2.
OnlyAddedPartsGiveSegments ==
    /\ SegmentsComputed =>
          /\ Len(segments) = Cardinality(AddedParts(parts))
          /\ \A k \in 1..Len(segments) :
                segments[k].kind \in {"added", "modified"}
    /\ (SegmentsKept /\ text2 = <<>>) =>
          /\ segments = <<>>
          /\ RectanglesDrawn => RectangleCount(outDoc) = 0

\* C8: document 1 has text, document 2 has none: everything is removed.
OnlyAddedPartsGiveSegmentsWitness ==
    /\ RectanglesDrawn
    /\ text2 = <<>>
    /\ parts # <<>>
    /\ \A i \in 1..Len(parts) : parts[i].removed

\* C10: after a failed remote call the run goes on with the local
\* extraction; it ends in error only when a later step throws.
RemoteFailureNotFatal ==
    remote \in RemoteFailures =>
        /\ pc \in {"local1", "local2", "layout", "copy", "save", "done", "error"}
        /\ pc = "error" => thrown \in {"local", "annotate"}
        /\ pc # "error" => (~error /\ calledBack \in {<<>>, <<"onComplete">>})
        /\ SegmentsComputed => text2 = extractTextLocalFallback(file2)

\* C10: a run that completed after the remote call failed.
RemoteFailureNotFatalWitness ==
    /\ remote = "malformed"
    /\ pc = "done"
    /\ calledBack = <<"onComplete">>

---------------------------------------------------------------------------
(* createAnnotatedSecondPdf for any segment (DiffProcessor.tsx, lines      *)
(* 209-248): the layout of file2 is collected, then the rectangles of one  *)
(* segment [s, e) of the assembled text are drawn.                         *)

\* lines 211-248 for the one segment seg
DrawAnySegment ==
    /\ pc = "copy"
    /\ \E s \in 0..Len(layout.text), e \in 0..Len(layout.text),
          k \in {"added", "modified"} :
          /\ s < e
          /\ segments' = <<[start |-> s, end |-> e, kind |-> k]>>
          /\ outDoc' = DrawSegments(CopiedPages(file2), segments',
                                    layout.items, 1)
    /\ pc' = "save"
    /\ UNCHANGED <<file2, text1, text2, parts, layout, remote, thrown,
                   isProcessing, error, htmlDiff, annotatedPdfUrl,
                   calledBack>>
    /\ UNCHANGED lineVars
    /\ UNCHANGED otherVars
    /\ UNCHANGED runVars

InitMap ==
    /\ pc = "layout"
    /\ file2 \in Docs
    /\ text1 = <<>>
    /\ text2 = <<>>
    /\ parts = <<>>
    /\ segments = <<>>
    /\ layout = EmptyLayout
    /\ outDoc = <<>>
    /\ remote = "ok"
    /\ thrown = "none"
    /\ isProcessing = TRUE
    /\ error = FALSE
    /\ htmlDiff = TRUE
    /\ annotatedPdfUrl = FALSE
    /\ calledBack = <<>>
    /\ file1 = TRUE
    /\ callbacks = TRUE
    /\ runs = 1
    /\ stats = 1
    /\ isIdentical = 1
    /\ madeBy = [htmlDiff |-> 1, annotatedPdfUrl |-> 0]
    /\ linePc = "idle"
    /\ lineIn = <<>>
    /\ lineParts = <<>>
    /\ lineIdx = 0
    /\ rows = <<>>
    /\ index1 = 0
    /\ index2 = 0
    /\ OthersIdle

NextMap ==
    \/ LayoutCollected
    \/ DrawAnySegment

SpecMap == InitMap /\ [][NextMap]_vars

\* the same for a document with free geometry
InitGeom ==
    /\ pc = "layout"
    /\ file2 \in GeomDocs
    /\ text1 = <<>>
    /\ text2 = <<>>
    /\ parts = <<>>
    /\ segments = <<>>
    /\ layout = EmptyLayout
    /\ outDoc = <<>>
    /\ remote = "ok"
    /\ thrown = "none"
    /\ isProcessing = TRUE
    /\ error = FALSE
    /\ htmlDiff = TRUE
    /\ annotatedPdfUrl = FALSE
    /\ calledBack = <<>>
    /\ file1 = TRUE
    /\ callbacks = TRUE
    /\ runs = 1
    /\ stats = 1
    /\ isIdentical = 1
    /\ madeBy = [htmlDiff |-> 1, annotatedPdfUrl |-> 0]
    /\ linePc = "idle"
    /\ lineIn = <<>>
    /\ lineParts = <<>>
    /\ lineIdx = 0
    /\ rows = <<>>
    /\ index1 = 0
    /\ index2 = 0
    /\ OthersIdle

SpecGeom == InitGeom /\ [][NextMap]_vars

RECURSIVE OverlapLengths(_)
\* the sum of overlapEnd - overlapStart over the rectangles rects
OverlapLengths(rects) ==
    IF rects = <<>> THEN 0
    ELSE Head(rects).overlapEnd - Head(rects).overlapStart
            + OverlapLengths(Tail(rects))

RECURSIVE OverlapSum(_)
\* the sum of overlapEnd - overlapStart over the rectangles of all pages
OverlapSum(out) ==
    IF out = <<>> THEN 0
    ELSE OverlapLengths(Head(out).rects) + OverlapSum(Tail(out))

RECURSIVE TextLength(_)
\* the number of characters the items its and their separators take
TextLength(its) ==
    IF its = <<>> THEN 0
    ELSE Len(Head(its).str) + 1 + TextLength(Tail(its))

RECURSIVE PageEnd(_, _)
\* the offset after the text items and the page break of the first p pages
PageEnd(doc, p) ==
    IF p = 0 THEN 0
    ELSE PageEnd(doc, p - 1) + TextLength(doc[p].items) + 2

\* the offsets of the page-break characters of the assembled text
PageBreakOffsets(doc) ==
    UNION {{PageEnd(doc, p) - 2, PageEnd(doc, p) - 1} : p \in 1..Len(doc)}

\* C5 as stated: the runs cover the segment end to end.
OverlapCompleteness ==
    pc = "save" =>
        OverlapSum(outDoc) = segments[1].end - segments[1].start

\* C5 as amended: the runs cover the segment but for the page-break
\* characters in it.
OverlapCompletenessButPageBreaks ==
    pc = "save" =>
        OverlapSum(outDoc)
            = segments[1].end - segments[1].start
                - Cardinality(PageBreakOffsets(file2)
                                \cap segments[1].start..(segments[1].end - 1))

\* C5: a segment that starts in a run of the first page, crosses the page
\* break and ends in a run of the second page.
OverlapCompletenessWitness ==
    /\ pc = "save"
    /\ Len(outDoc) = 2
    /\ outDoc[1].rects # <<>>
    /\ outDoc[2].rects # <<>>
    /\ segments[1].start > 0

---------------------------------------------------------------------------
(* Properties of one createLineDiff call.                                  *)

\* C9: a removed block next to an added block gives a row of type
\* modified that carries both texts.
ModifiedRowForReplacedLine ==
    (linePc = "returned"
        /\ \E i \in 1..(Len(lineParts) - 1) :
              \/ (lineParts[i].removed /\ lineParts[i + 1].added)
              \/ (lineParts[i].added /\ lineParts[i + 1].removed))
    => \E r \in 1..Len(rows) :
          /\ rows[r].type = "modified"
          /\ rows[r].lineNumber1 >= 1
          /\ rows[r].lineNumber2 >= 1


---------------------------------------------------------------------------
(* Outcome of one processDiff run.                                         *)

---------------------------------------------------------------------------
(* Geometry of the rectangles.                                             *)

\* the run a rectangle is drawn for: runs are disjoint, and the overlap of
\* the rectangle starts in its run
RunOf(r) ==
    layout.items[CHOOSE i \in 1..Len(layout.items) :
                     /\ layout.items[i].start <= r.overlapStart
                     /\ r.overlapStart < layout.items[i].end]

\* the rectangles drawn on the page of index p - 1
RectsOn(p) == {outDoc[p].rects[j] : j \in 1..Len(outDoc[p].rects)}

\* the run and the segment of the example
ScenarioRun == [start |-> 100, end |-> 106]
ScenarioSegment == [start |-> 102, end |-> 106]

\* C12: the rectangle of a segment on a run starts at the fraction of the
\* run's width where the overlap starts and is as wide as the fraction the
\* overlap takes in the run; for the run [100, 106) and the segment
\* [102, 106) the fractions are 2/6 and 4/6.
PartialRunHighlighting ==
    /\ pc = "save" =>
          \A p \in 1..Len(outDoc) : \A r \in RectsOn(p) :
              LET run == RunOf(r)
                  len == run.end - run.start
              IN  /\ r.x.num * len
                        = (run.x * len
                             + run.width * (r.overlapStart - run.start))
                          * r.x.den
                  /\ r.width.num * len
                        = run.width * (r.overlapEnd - r.overlapStart)
                          * r.width.den
    /\ FracEq(FracStart(ScenarioSegment, ScenarioRun), Frac(2, 6))
    /\ FracEq(FracWidth(ScenarioSegment, ScenarioRun), Frac(4, 6))

\* C12: a run of six characters whose last four are in the segment, as in
\* the example.
PartialRunHighlightingWitness ==
    /\ pc = "save"
    /\ \E r \in RectsOn(1) :
          /\ RunOf(r).end - RunOf(r).start = 6
          /\ r.overlapStart - RunOf(r).start = 2
          /\ r.overlapEnd = RunOf(r).end
          /\ RunOf(r).width > 1
          /\ RunOf(r).x > 0

\* C13: the bottom edge of a rectangle is the y stored in its run, when the
\* run lies inside the page.
FlipAppliedOnce ==
    pc = "save" =>
        \A p \in 1..Len(outDoc) : \A r \in RectsOn(p) :
            LET run == RunOf(r)
            IN  (0 <= run.y /\ run.y <= outDoc[p].height - run.height)
                    => r.y = run.y

---------------------------------------------------------------------------
(* Offsets of the segments.                                                *)

RECURSIVE NonRemovedLength(_, _)
\* the length of the values of the first n parts that are not removed
NonRemovedLength(ps, n) ==
    IF n = 0 THEN 0
    ELSE NonRemovedLength(ps, n - 1)
            + (IF ps[n].removed THEN 0 ELSE Len(ps[n].value))

\* C14: the k-th segment starts after the parts before its added part that
\* are not removed and is as long as that part; the segments are not empty,
\* lie in text2, follow each other without overlap, and pos2 ends at the
\* length of the parts that are not removed.
Pos2Accounting ==
    SegmentsComputed =>
        /\ \A k \in 1..Len(segments) :
              LET i == KthAdded(parts, k)
              IN  /\ segments[k].start = NonRemovedLength(parts, i - 1)
                  /\ segments[k].end
                        = segments[k].start + Len(parts[i].value)
                  /\ 0 <= segments[k].start
                  /\ segments[k].start < segments[k].end
                  /\ segments[k].end <= Len(text2)
        /\ \A k \in 1..(Len(segments) - 1) :
              /\ segments[k].start < segments[k + 1].start
              /\ segments[k].end <= segments[k + 1].start
        /\ WalkParts(parts, 1, 0, <<>>).pos2
              = NonRemovedLength(parts, Len(parts))
        /\ WalkParts(parts, 1, 0, <<>>).pos2 = Len(text2)

\* C14: two segments with unchanged text between them, and a removed part.
Pos2AccountingWitness ==
    /\ SegmentsComputed
    /\ Len(segments) = 2
    /\ segments[1].end < segments[2].start
    /\ \E i \in 1..Len(parts) : parts[i].removed

---------------------------------------------------------------------------
(* Rows of one createLineDiff call.                                        *)

RECURSIVE BlockLines(_, _)
\* the number of lines of the first n blocks
BlockLines(ps, n) ==
    IF n = 0 THEN 0
    ELSE BlockLines(ps, n - 1) + Len(TokenizeLines(ps[n].value))

\* the rows that have a line of document 1, of document 2
RowsOfSide1 == {r \in 1..Len(rows) : rows[r].lineNumber1 # -1}
RowsOfSide2 == {r \in 1..Len(rows) : rows[r].lineNumber2 # -1}

\* C15: after every block the rows are as many as the lines of the blocks
\* walked, so a block gives one row per line and none for the empty string
\* after its last line break; at the end the rows with a side of document 1
\* (document 2) are as many as the lines of text1 (text2).
NoRowForTrailingEmptyString ==
    /\ linePc # "idle" => Len(rows) = BlockLines(lineParts, lineIdx)
    /\ linePc = "returned" =>
          /\ Cardinality(RowsOfSide1) = Len(TokenizeLines(lineIn[1]))
          /\ Cardinality(RowsOfSide2) = Len(TokenizeLines(lineIn[2]))

\* C15: the call returned, a block ends with a line break, and an empty
\* line of document 1 has its row.
NoRowForTrailingEmptyStringWitness ==
    /\ linePc = "returned"
    /\ \E i \in 1..Len(lineParts) :
          lineParts[i].value[Len(lineParts[i].value)] = NL
    /\ \E r \in RowsOfSide1 : rows[r].text1 = <<>>
    /\ Len(rows) > 2

\* C16: a removed row has no line of document 2, an added row none of
\* document 1, an unchanged row has both; the line numbers of each side
\* count 1, 2, 3, ... in row order.
MissingSideAndNumbering ==
    linePc # "idle" =>
        /\ \A r \in 1..Len(rows) :
              /\ rows[r].type \in {"removed", "added", "unchanged"}
              /\ rows[r].type = "removed" =>
                    /\ rows[r].lineNumber2 = -1
                    /\ rows[r].text2 = <<>>
                    /\ rows[r].lineNumber1 >= 1
              /\ rows[r].type = "added" =>
                    /\ rows[r].lineNumber1 = -1
                    /\ rows[r].text1 = <<>>
                    /\ rows[r].lineNumber2 >= 1
              /\ rows[r].type = "unchanged" =>
                    /\ rows[r].lineNumber1 >= 1
                    /\ rows[r].lineNumber2 >= 1
        /\ \A r \in RowsOfSide1 :
              rows[r].lineNumber1
                  = Cardinality({q \in RowsOfSide1 : q <= r})
        /\ \A r \in RowsOfSide2 :
              rows[r].lineNumber2
                  = Cardinality({q \in RowsOfSide2 : q <= r})

\* C16: a removed row after an unchanged and an added row.
MissingSideAndNumberingWitness ==
    /\ linePc = "returned"
    /\ \E r \in 1..Len(rows) :
          /\ rows[r].type = "removed"
          /\ rows[r].lineNumber1 > 1
          /\ \E q \in 1..(r - 1) : rows[q].type = "added"
          /\ \E q \in 1..(r - 1) : rows[q].type = "unchanged"

---------------------------------------------------------------------------
(* Rectangles of one processDiff run.                                      *)

\* the pairs of a segment and a run on the page of index p - 1 whose offset
\* intervals have a character in common
IntersectingPairs(p) ==
    {sk \in (1..Len(segments)) \X (1..Len(layout.items)) :
        /\ layout.items[sk[2]].pageIndex = p - 1
        /\ segments[sk[1]].start < layout.items[sk[2]].end
        /\ layout.items[sk[2]].start < segments[sk[1]].end}

\* the rectangles of the page of index p - 1 drawn for the characters that
\* the segment and the run of the pair sk have in common
RectanglesOfPair(p, sk) ==
    {j \in 1..Len(outDoc[p].rects) :
        /\ outDoc[p].rects[j].overlapStart
              = Max(segments[sk[1]].start, layout.items[sk[2]].start)
        /\ outDoc[p].rects[j].overlapEnd
              = Min(segments[sk[1]].end, layout.items[sk[2]].end)}

\* C17: every page carries one rectangle for each pair of a segment and a
\* run of that page that intersect, and no other rectangle.
OneRectanglePerPair ==
    pc = "save" =>
        /\ Len(outDoc) = Len(file2)
        /\ \A p \in 1..Len(outDoc) :
              /\ Len(outDoc[p].rects) = Cardinality(IntersectingPairs(p))
              /\ \A sk \in IntersectingPairs(p) :
                    Cardinality(RectanglesOfPair(p, sk)) = 1

\* C17: two segments and two runs on two pages, a rectangle on each page,
\* and pairs that do not intersect.
OneRectanglePerPairWitness ==
    /\ pc = "save"
    /\ Len(segments) = 2
    /\ Len(layout.items) = 2
    /\ Len(outDoc) = 2
    /\ Len(outDoc[1].rects) = 1
    /\ Len(outDoc[2].rects) = 1

\* the segment a rectangle is drawn for: segments are disjoint, and the
\* overlap of the rectangle starts in its segment
SegmentOf(r) ==
    segments[CHOOSE s \in 1..Len(segments) :
                 /\ segments[s].start <= r.overlapStart
                 /\ r.overlapStart < segments[s].end]

---------------------------------------------------------------------------
(* Pages without text.                                                     *)

\* the pages among the first n of doc that have no text item
EmptyPages(doc, n) == {p \in 1..n : doc[p].items = <<>>}

RECURSIVE ItemsLength(_, _)
\* the number of characters the items of the first n pages of doc and
\* their separators take, and the page breaks of those pages that have
\* items
ItemsLength(doc, n) ==
    IF n = 0 THEN 0
    ELSE ItemsLength(doc, n - 1)
            + (IF doc[n].items = <<>> THEN 0
               ELSE TextLength(doc[n].items) + 2)

\* the runs of the page of index p - 1
RunsOfPage(p) ==
    {k \in 1..Len(layout.items) : layout.items[k].pageIndex = p - 1}

\* C19: the layout of a document is collected without error whatever pages
\* have no text item; such a page has no run and adds its two newlines, so
\* the first run of a page starts where the text of the pages before it
\* that have items ends, plus 2 for each page before it that has none.
EmptyPageShiftsByTwo ==
    pc = "copy" =>
        /\ ~error
        /\ thrown = "none"
        /\ Len(layout.pageHeights) = Len(file2)
        /\ \A p \in 1..Len(file2) :
              /\ Cardinality(RunsOfPage(p)) = Len(file2[p].items)
              /\ file2[p].items = <<>> => RunsOfPage(p) = {}
              /\ RunsOfPage(p) # {} =>
                    \E k \in RunsOfPage(p) :
                        /\ \A j \in RunsOfPage(p) : k <= j
                        /\ layout.items[k].start
                              = ItemsLength(file2, p - 1)
                                  + 2 * Cardinality(EmptyPages(file2, p - 1))
        /\ Len(layout.text)
              = ItemsLength(file2, Len(file2))
                  + 2 * Cardinality(EmptyPages(file2, Len(file2)))

\* C19: a first page without text item and a run on the second page, which
\* starts at offset 2.
EmptyPageShiftsByTwoWitness ==
    /\ pc = "copy"
    /\ Len(file2) = 2
    /\ file2[1].items = <<>>
    /\ Len(layout.items) = 1
    /\ layout.items[1].pageIndex = 1
    /\ layout.items[1].start = 2

---------------------------------------------------------------------------
(* Order of the steps of one processDiff run.                              *)

RECURSIVE ValuesOf(_, _)
\* the values of the parts ps concatenated, the added ones left out
\* (side = 1) or the removed ones (side = 2)
ValuesOf(ps, side) ==
    IF ps = <<>> THEN <<>>
    ELSE (IF (side = 1 /\ Head(ps).added) \/ (side = 2 /\ Head(ps).removed)
          THEN <<>> ELSE Head(ps).value) \o ValuesOf(Tail(ps), side)

\* C20: while a text is missing there is no part, no segment, no layout and
\* no rectangle; when the diff has returned, its parts are those of the two
\* complete texts and there is no layout and no rectangle yet; when the
\* rectangles have been drawn, the layout has all pages in index order.
PipelineOrdering ==
    /\ pc \in {"idle", "api", "local1", "local2"} =>
          /\ parts = <<>>
          /\ segments = <<>>
          /\ layout = EmptyLayout
          /\ outDoc = <<>>
    /\ pc \in {"idle", "api", "local1"} => (text1 = <<>> /\ text2 = <<>>)
    /\ pc = "local2" => text2 = <<>>
    /\ SegmentsComputed =>
          /\ remote = "ok" \/ text2 = extractTextLocalFallback(file2)
          /\ ValuesOf(parts, 1) = text1
          /\ ValuesOf(parts, 2) = text2
          /\ Len(segments) = Cardinality(AddedParts(parts))
          /\ layout = EmptyLayout
          /\ outDoc = <<>>
    /\ pc = "copy" => outDoc = <<>>
    /\ outDoc # <<>> => SegmentsKept
    /\ pc = "save" =>
          /\ Len(layout.pageHeights) = Len(file2)
          /\ \A p \in 1..Len(file2) :
                /\ layout.pageHeights[p] = file2[p].height
                /\ layout.pageWidths[p] = file2[p].width
                /\ Cardinality(RunsOfPage(p)) = Len(file2[p].items)

\* C20: a run on the local path that drew a rectangle on the second page
\* of a document.
PipelineOrderingWitness ==
    /\ pc = "save"
    /\ remote \in RemoteFailures
    /\ text1 # <<>>
    /\ Len(outDoc) = 2
    /\ outDoc[2].rects # <<>>

---------------------------------------------------------------------------
(* A mounted DiffProcessor whose files change (DiffProcessor.tsx, lines    *)
(* 388-471): the effect of lines 467-471 calls processDiff again, and the  *)
(* useState values of the component outlive the call.                      *)

\* the documents file2 holds in these runs: one page of at most one text
\* item
RerunDocs == DocsOf(1, 1) \cap Docs

\* lines 389 and 468: a file is not set, nothing runs
ProcessDiffReturn ==
    /\ pc = "idle"
    /\ ~file1 \/ file2 = <<>>
    /\ pc' = "returned"
    /\ UNCHANGED <<file2, text1, text2, parts, segments, layout, outDoc,
                   remote, thrown, isProcessing, error, htmlDiff,
                   annotatedPdfUrl, calledBack>>
    /\ UNCHANGED runVars
    /\ UNCHANGED lineVars
    /\ UNCHANGED otherVars

\* lines 465-471: after a call of processDiff returned the parent sets other
\* files, so processDiff is made again and the effect is due. The locals of
\* the call that returned are gone, the useState values are kept
FilesChanged ==
    /\ pc \in {"done", "error", "returned"}
    /\ runs < MaxCalls
    /\ file1' \in BOOLEAN
    /\ file2' \in RerunDocs \cup {<<>>}
    /\ text1' = <<>>
    /\ text2' = <<>>
    /\ parts' = <<>>
    /\ segments' = <<>>
    /\ layout' = EmptyLayout
    /\ outDoc' = <<>>
    /\ remote' = "pending"
    /\ thrown' = "none"
    /\ calledBack' = <<>>
    /\ pc' = "idle"
    /\ UNCHANGED <<isProcessing, error, htmlDiff, annotatedPdfUrl, callbacks,
                   runs, stats, isIdentical, madeBy>>
    /\ UNCHANGED lineVars
    /\ UNCHANGED otherVars

InitRerun ==
    \E f1 \in BOOLEAN, d \in RerunDocs \cup {<<>>}, cb \in BOOLEAN :
        InitOfFiles(f1, d, cb)

NextRerun ==
    \/ Next
    \/ ProcessDiffReturn
    \/ FilesChanged

SpecRerun == InitRerun /\ [][NextRerun]_vars

Running == {"api", "local1", "local2", "layout", "copy", "save"}

\* how far a call of processDiff is: every await is passed at most once
Progress(p) ==
    CASE p = "idle" -> 0
      [] p = "api" -> 1
      [] p = "local1" -> 2
      [] p = "local2" -> 3
      [] p = "layout" -> 4
      [] p = "copy" -> 5
      [] p = "save" -> 6
      [] OTHER -> 7

\* what a run that returned left behind: isProcessing is false, the report
\* and the annotated document are set after a run that completed, no
\* annotated document is set after a run that failed
RunReturned ==
    /\ pc \in Running => isProcessing /\ calledBack = <<>>
    /\ pc \in {"done", "error"} => ~isProcessing
    /\ pc = "done" => htmlDiff /\ annotatedPdfUrl /\ ~error
    /\ pc = "error" => error /\ ~annotatedPdfUrl

---------------------------------------------------------------------------
(* sanitizeTextForWinAnsi (part_002, lines 377-381): one call.  A          *)
(* JavaScript string is a sequence of UTF-16 code units; a code point      *)
(* above U+FFFF takes two of them.                                         *)

\* the code points of the inputs: "a", DEL (the last one below U+0080),
\* U+0080, e acute, the arrowhead U+27A2, U+FFFF and the emoji U+1F600
CodePoints == {97, 127, 128, 233, 10146, 65535, 128512}

\* the code units of the code point cp in a JavaScript string
ToUtf16(cp) ==
    IF cp < 65536 THEN <<cp>>
    ELSE <<55296 + ((cp - 65536) \div 1024), 56320 + ((cp - 65536) % 1024)>>

RECURSIVE StringOf(_)
\* the JavaScript string of the code points cps
StringOf(cps) ==
    IF cps = <<>> THEN <<>> ELSE ToUtf16(Head(cps)) \o StringOf(Tail(cps))

\* what the regular expression /[\u0080-\uFFFF]/g and its callback make of
\* the code unit u: without the u flag the expression matches code units
ReplaceUnit(u) ==
    IF u >= 128 /\ u <= 65535 THEN (IF u = 10146 THEN 45 ELSE 63) ELSE u

\* s.replace(...) on the string s
sanitizeTextForWinAnsi(s) == [i \in 1..Len(s) |-> ReplaceUnit(s[i])]

\* the strings given to sanitizeTextForWinAnsi
SanitizeInputs == UNION {[1..n -> CodePoints] : n \in 0..MaxCodePoints}

\* lines 377-381
SanitizeCall ==
    /\ sanPc = "idle"
    /\ sanOut' = sanitizeTextForWinAnsi(StringOf(sanIn))
    /\ sanPc' = "returned"
    /\ UNCHANGED sanIn
    /\ UNCHANGED <<procVars, lineVars, homeVars, previewVars>>

\* no DiffProcessor is mounted and createLineDiff has not been called
NoPipeline ==
    /\ pc = "idle"
    /\ file2 = <<>>
    /\ text1 = <<>>
    /\ text2 = <<>>
    /\ parts = <<>>
    /\ segments = <<>>
    /\ layout = EmptyLayout
    /\ outDoc = <<>>
    /\ remote = "pending"
    /\ thrown = "none"
    /\ isProcessing = FALSE
    /\ error = FALSE
    /\ htmlDiff = FALSE
    /\ annotatedPdfUrl = FALSE
    /\ calledBack = <<>>
    /\ file1 = FALSE
    /\ callbacks = FALSE
    /\ runs = 0
    /\ stats = 0
    /\ isIdentical = 0
    /\ madeBy = NoRun
    /\ linePc = "idle"
    /\ lineIn = <<>>
    /\ lineParts = <<>>
    /\ lineIdx = 0
    /\ rows = <<>>
    /\ index1 = 0
    /\ index2 = 0

InitSanitize ==
    /\ NoPipeline
    /\ sanPc = "idle"
    /\ sanIn \in SanitizeInputs
    /\ sanOut = <<>>
    /\ HomeIdle
    /\ PreviewIdle

NextSanitize == SanitizeCall

SpecSanitize == InitSanitize /\ [][NextSanitize]_vars

\* C23: the result has one character per code point of the input: the code
\* point itself below U+0080, "-" for the arrowhead U+27A2 and "?" for every
\* other code point.
OnePlaceholderPerCodePoint ==
    sanPc = "returned" =>
        /\ Len(sanOut) = Len(sanIn)
        /\ \A i \in 1..Len(sanIn) :
              sanOut[i] = IF sanIn[i] < 128 THEN sanIn[i]
                          ELSE IF sanIn[i] = 10146 THEN 45
                          ELSE 63

---------------------------------------------------------------------------
(* The Home page (page.tsx) with its two PdfUploaders (part_001) and the   *)
(* DiffProcessor it mounts.  An action is an event handler together with   *)
(* the render and the effects that follow it; of a processDiff run Home    *)
(* sees its start, its completion and its failure.                         *)

\* the files a user drops or selects
Files == [type : {"application/pdf", "text/plain"},
          size : {10 * 1024 * 1024, 10 * 1024 * 1024 + 1}]

\* part_001, lines 26-39, without the setError calls
validateFile(file) ==
    file.type = "application/pdf" /\ ~(file.size > 10 * 1024 * 1024)

\* DropZoneOffered with a slip: the drop zone is always rendered
DropZoneOfferedAlways(n) == TRUE

\* part_001, line 77: the drop zone and the file input of the uploader n are
\* rendered
DropZoneOffered(n) == slots[n] = 0

\* canProcess with a slip: the status is not looked at
canProcessWhateverStatus == slots[1] # 0 /\ slots[2] # 0

\* page.tsx, line 59; the Compare button is disabled without it (line 129)
canProcess == slots[1] # 0 /\ slots[2] # 0 /\ status # "processing"

\* part_001, lines 26-35 and 41-58: a file is dropped or selected and
\* validateFile refuses it
UploadRefused(n) ==
    /\ DropZoneOffered(n)
    /\ \E file \in Files : ~validateFile(file)
    /\ uploaderError' = [uploaderError EXCEPT ![n] = TRUE]
    /\ UNCHANGED <<slots, status, homeError, revoked, uploads, presses,
                   processor, executions, offered>>
    /\ UNCHANGED <<procVars, lineVars, sanVars, previewVars>>

\* part_001, lines 37-38 and 41-58, page.tsx, lines 30-50: a file is dropped
\* or selected, validateFile accepts it and handleFileUpload stores it
UploadAccepted(n) ==
    /\ DropZoneOffered(n)
    /\ uploads < MaxUploads
    /\ \E file \in Files : validateFile(file)
    /\ uploaderError' = [uploaderError EXCEPT ![n] = FALSE]
    /\ uploads' = uploads + 1
    /\ revoked' = IF slots[n] # 0 THEN revoked \cup {slots[n]} ELSE revoked
    /\ slots' = [slots EXCEPT ![n] = uploads + 1]
    /\ homeError' = FALSE
    /\ UNCHANGED <<status, presses, processor, executions, offered>>
    /\ UNCHANGED <<procVars, lineVars, sanVars, previewVars>>

\* part_001, lines 60-65 and 123-129: the remove button of a file card
RemoveFile(n) ==
    /\ ~(slots[n] = 0)
    /\ revoked' = revoked \cup {slots[n]}
    /\ uploaderError' = [uploaderError EXCEPT ![n] = FALSE]
    /\ UNCHANGED <<slots, status, homeError, uploads, presses, processor,
                   executions, offered>>
    /\ UNCHANGED <<procVars, lineVars, sanVars, previewVars>>

\* page.tsx, lines 52-57 and 159-171, DiffProcessor.tsx, lines 467-471: the
\* Compare button is pressed; the render that follows mounts a DiffProcessor
\* under status "processing" (unmounting the one under "completed"), and its
\* effect starts processDiff
HandleProcessDiff ==
    /\ canProcess
    /\ presses < MaxPresses
    /\ slots[1] # 0 /\ slots[2] # 0
    /\ status' = "processing"
    /\ homeError' = FALSE
    /\ presses' = presses + 1
    /\ processor' = [under |-> "processing", run |-> "running"]
    /\ executions' = 1
    /\ offered' = 0
    /\ UNCHANGED <<slots, uploaderError, revoked, uploads>>
    /\ UNCHANGED <<procVars, lineVars, sanVars, previewVars>>

\* DiffProcessor.tsx, lines 451-455 and 463: the run of the mounted
\* DiffProcessor completes. Under "processing" onComplete sets the status
\* (page.tsx, line 164), the render that follows unmounts this DiffProcessor
\* and mounts the one of line 185, whose effect starts processDiff; under
\* "completed" there is no onComplete, and the report and the download
\* buttons of the run are rendered
RunCompletes ==
    /\ processor.run = "running"
    /\ IF processor.under = "processing"
       THEN /\ status' = "completed"
            /\ processor' = [under |-> "completed", run |-> "running"]
            /\ executions' = executions + 1
            /\ offered' = offered
       ELSE /\ status' = status
            /\ processor' = [processor EXCEPT !.run = "done"]
            /\ executions' = executions
            /\ offered' = executions
    /\ UNCHANGED <<slots, homeError, uploaderError, revoked, uploads,
                   presses>>
    /\ UNCHANGED <<procVars, lineVars, sanVars, previewVars>>

\* DiffProcessor.tsx, lines 456-463: the run of the mounted DiffProcessor
\* fails. Under "processing" onError sets the message and the status
\* (page.tsx, lines 165-168) and the render that follows unmounts the
\* DiffProcessor; under "completed" there is no onError, and the
\* DiffProcessor renders its own error
RunFails ==
    /\ processor.run = "running"
    /\ IF processor.under = "processing"
       THEN /\ homeError' = TRUE
            /\ status' = "error"
            /\ processor' = NoProcessor
       ELSE /\ homeError' = homeError
            /\ status' = status
            /\ processor' = [processor EXCEPT !.run = "error"]
    /\ UNCHANGED <<slots, uploaderError, revoked, uploads, presses,
                   executions, offered>>
    /\ UNCHANGED <<procVars, lineVars, sanVars, previewVars>>

InitHome == NoPipeline /\ SanitizeIdle /\ HomeIdle /\ PreviewIdle

NextHome ==
    \/ \E n \in 1..2 : UploadRefused(n)
    \/ \E n \in 1..2 : UploadAccepted(n)
    \/ \E n \in 1..2 : RemoveFile(n)
    \/ HandleProcessDiff
    \/ RunCompletes
    \/ RunFails

SpecHome == InitHome /\ [][NextHome]_vars

\* C24: when the completed view is shown, one processDiff run was started
\* since the Compare button was pressed, and the results offered for
\* download are those of that run.
OneExecutionPerPress ==
    status = "completed" =>
        /\ executions = 1
        /\ offered \in {0, 1}

\* C28: the status is "processing", "completed" or "error" only with both
\* files set, the Compare button is not pressed while the status is
\* "processing", and Home's error is set only with the status "error".
HomeStatus ==
    /\ [](/\ status \in {"idle", "processing", "completed", "error"}
          /\ status # "idle" => slots[1] # 0 /\ slots[2] # 0
          /\ homeError => status = "error")
    /\ [][(status = "processing") => (presses' = presses)]_vars

\* C28: the comparison started by the second press failed.
HomeStatusWitness ==
    /\ presses = 2
    /\ status = "error"
    /\ homeError
    /\ slots[1] # 0 /\ slots[2] # 0

---------------------------------------------------------------------------
(* The fractions of a rectangle (DiffProcessor.tsx, lines 222-232).        *)

\* C27: every run of the layout has end - start >= 1, so the denominator of
\* the fractions is the length of the run; for every rectangle drawn
\* 0 <= fracStart, 0 < fracWidth and fracStart + fracWidth <= 1, and the
\* rectangle lies between run.x and run.x + run.width.
RectangleWithinRun ==
    pc = "save" =>
        /\ \A i \in 1..Len(layout.items) :
              layout.items[i].end - layout.items[i].start >= 1
        /\ \A p \in 1..Len(outDoc) : \A r \in RectsOn(p) :
              LET run == RunOf(r)
                  fs == FracStart(SegmentOf(r), run)
                  fw == FracWidth(SegmentOf(r), run)
              IN  /\ fs.den = run.end - run.start
                  /\ fw.den = run.end - run.start
                  /\ 0 <= fs.num
                  /\ 0 < fw.num
                  /\ fs.num + fw.num <= fs.den
                  /\ r.x.den > 0 /\ r.width.den > 0
                  /\ run.x * r.x.den <= r.x.num
                  /\ 0 <= r.width.num
                  /\ r.x.num * r.width.den + r.width.num * r.x.den
                        <= (run.x + run.width) * r.x.den * r.width.den

\* C27: a rectangle that starts after the start of its run and ends before
\* its end.
RectangleWithinRunWitness ==
    /\ pc = "save"
    /\ \E p \in 1..Len(outDoc) : \E r \in RectsOn(p) :
          LET run == RunOf(r)
              fs == FracStart(SegmentOf(r), run)
              fw == FracWidth(SegmentOf(r), run)
          IN  /\ 0 < fs.num
              /\ fs.num + fw.num < fs.den
              /\ run.x * r.x.den < r.x.num
              /\ r.x.num * r.width.den + r.width.num * r.x.den
                    < (run.x + run.width) * r.x.den * r.width.den

---------------------------------------------------------------------------
(* PdfPreview (DiffProcessor.tsx, lines 587-772): one mounted preview      *)
(* whose prop file changes.  A step is the code between two awaits, or an  *)
(* event handler, together with the render that follows; the effect on     *)
(* pageNumber of that render runs before anything else happens.            *)

\* the documents the prop file can hold at its change number id
PreviewFiles(id) == {[id |-> id, pages |-> n] : n \in 1..MaxPreviewPages}

\* lines 717-740: the canvas is rendered, so canvasRef.current is set
CanvasMounted == pvFile # NoFile /\ pvError = "none"

\* renderTask.cancel(): a task that is still running rejects its promise
\* with a RenderingCancelledException, a settled task is left as it is
CancelTask(ts, ref) ==
    IF ref # 0 /\ ts[ref] = "running" THEN [ts EXCEPT ![ref] = "cancelled"]
    ELSE ts

\* LoadedState with a slip: the page number is kept
LoadedStateKeepingPage(pdf) ==
    [numPages |-> pdf.pages, pageNumber |-> pageNumber]

\* lines 661-662: setNumPages(pdf.numPages); setPageNumber(1)
LoadedState(pdf) == [numPages |-> pdf.pages, pageNumber |-> 1]

\* RenderPageCatch with a slip: every exception sets the error
RenderPageCatchEverything(name) == [error |-> "render", loading |-> FALSE]

\* lines 622-630: the catch of renderPage, for an exception of the name
\* `name`; the error and the loading flag it leaves
RenderPageCatch(name) ==
    IF name = "RenderingCancelledException"
    THEN [error |-> pvError, loading |-> loading]
    ELSE [error |-> "render", loading |-> FALSE]

\* line 690
goToPrevPage(page) == Max(1, page - 1)

\* line 694
goToNextPage(page) == Min(numPages, page + 1)

\* lines 597-607: renderPage(pageNum) up to its first await, for the
\* document doc in pdfDocRef.current
RenderPageStart(doc, pageNum) ==
    IF doc = NoFile \/ ~CanvasMounted
    THEN UNCHANGED <<loading, tasks, calls>>
    ELSE /\ loading' = TRUE
         /\ tasks' = CancelTask(tasks, renderTaskRef)
         /\ calls' = Append(calls, [pc |-> "getPage", doc |-> doc,
                                    pageNum |-> pageNum, task |-> 0])

\* lines 633-647 and 674-679: the parent passes another file. The cleanup of
\* the effect cancels the load that is under way and the task of
\* renderTaskRef, and the effect runs for the new file
PreviewFileChanged ==
    /\ ~navDue
    /\ loads < MaxLoads
    /\ \E f \in {NoFile} \cup PreviewFiles(loads + 1) :
          /\ f # pvFile
          /\ f # NoFile => Len(calls) + 2 <= MaxRenders
          /\ pvFile' = f
          /\ tasks' = IF pvFile # NoFile THEN CancelTask(tasks, renderTaskRef)
                      ELSE tasks
          /\ IF f = NoFile
             THEN /\ numPages' = 0
                  /\ pageNumber' = 1
                  /\ pvError' = "none"
                  /\ loadPc' = "none"
                  /\ UNCHANGED loading
             ELSE /\ loading' = TRUE
                  /\ pvError' = "none"
                  /\ loadPc' = "loading"
                  /\ UNCHANGED <<numPages, pageNumber>>
    /\ navDue' = (pageNumber' # pageNumber)
    /\ loads' = loads + 1
    /\ UNCHANGED <<pdfDocRef, renderTaskRef, calls>>
    /\ UNCHANGED <<procVars, lineVars, sanVars, homeVars>>

\* lines 656-665: getDocument returned and the effect was not cancelled
LoadResolved ==
    /\ ~navDue
    /\ loadPc = "loading"
    /\ pdfDocRef' = pvFile
    /\ numPages' = LoadedState(pvFile).numPages
    /\ pageNumber' = LoadedState(pvFile).pageNumber
    /\ navDue' = (pageNumber' # pageNumber)
    /\ RenderPageStart(pvFile, 1)
    /\ loadPc' = "done"
    /\ UNCHANGED <<pvFile, pvError, renderTaskRef, loads>>
    /\ UNCHANGED <<procVars, lineVars, sanVars, homeVars>>

\* lines 666-671: the import, arrayBuffer or getDocument threw and the
\* effect was not cancelled
LoadFailed ==
    /\ ~navDue
    /\ loadPc = "loading"
    /\ pvError' = "load"
    /\ loading' = FALSE
    /\ loadPc' = "done"
    /\ UNCHANGED <<pvFile, numPages, pageNumber, pdfDocRef, renderTaskRef,
                   tasks, calls, navDue, loads>>
    /\ UNCHANGED <<procVars, lineVars, sanVars, homeVars>>

\* lines 683-687: the effect on pageNumber
NavEffect ==
    /\ navDue
    /\ navDue' = FALSE
    /\ IF pdfDocRef # NoFile /\ pageNumber > 0
       THEN RenderPageStart(pdfDocRef, pageNumber)
       ELSE UNCHANGED <<loading, tasks, calls>>
    /\ UNCHANGED <<pvFile, numPages, pageNumber, pvError, pdfDocRef,
                   renderTaskRef, loadPc, loads>>
    /\ UNCHANGED <<procVars, lineVars, sanVars, homeVars>>

\* lines 607-620: getPage returned for the call c; the render task is
\* started and stored, or canvas.getContext throws a TypeError because the
\* canvas is not rendered any more
GetPageResolved(c) ==
    /\ ~navDue
    /\ calls[c].pc = "getPage"
    /\ IF CanvasMounted
       THEN /\ tasks' = Append(tasks, "running")
            /\ renderTaskRef' = Len(tasks) + 1
            /\ calls' = [calls EXCEPT ![c].pc = "render",
                                      ![c].task = Len(tasks) + 1]
            /\ UNCHANGED <<pvError, loading>>
       ELSE /\ pvError' = RenderPageCatch("TypeError").error
            /\ loading' = RenderPageCatch("TypeError").loading
            /\ calls' = [calls EXCEPT ![c].pc = "returned"]
            /\ UNCHANGED <<tasks, renderTaskRef>>
    /\ UNCHANGED <<pvFile, numPages, pageNumber, pdfDocRef, loadPc, navDue,
                   loads>>
    /\ UNCHANGED <<procVars, lineVars, sanVars, homeVars>>

\* lines 620-621: the render task of the call c completed
TaskCompletes(c) ==
    /\ ~navDue
    /\ calls[c].pc = "render"
    /\ tasks[calls[c].task] = "running"
    /\ tasks' = [tasks EXCEPT ![calls[c].task] = "completed"]
    /\ loading' = FALSE
    /\ calls' = [calls EXCEPT ![c].pc = "returned"]
    /\ UNCHANGED <<pvFile, numPages, pageNumber, pvError, pdfDocRef,
                   renderTaskRef, loadPc, navDue, loads>>
    /\ UNCHANGED <<procVars, lineVars, sanVars, homeVars>>

\* lines 620-630: the render task of the call c failed
TaskFails(c) ==
    /\ ~navDue
    /\ calls[c].pc = "render"
    /\ tasks[calls[c].task] = "running"
    /\ tasks' = [tasks EXCEPT ![calls[c].task] = "failed"]
    /\ pvError' = RenderPageCatch("Error").error
    /\ loading' = RenderPageCatch("Error").loading
    /\ calls' = [calls EXCEPT ![c].pc = "returned"]
    /\ UNCHANGED <<pvFile, numPages, pageNumber, pdfDocRef, renderTaskRef,
                   loadPc, navDue, loads>>
    /\ UNCHANGED <<procVars, lineVars, sanVars, homeVars>>

\* lines 620-630: the render task of the call c was cancelled, its promise
\* rejects
TaskCancelled(c) ==
    /\ ~navDue
    /\ calls[c].pc = "render"
    /\ tasks[calls[c].task] = "cancelled"
    /\ pvError' = RenderPageCatch("RenderingCancelledException").error
    /\ loading' = RenderPageCatch("RenderingCancelledException").loading
    /\ calls' = [calls EXCEPT ![c].pc = "returned"]
    /\ UNCHANGED <<pvFile, numPages, pageNumber, pdfDocRef, renderTaskRef,
                   tasks, loadPc, navDue, loads>>
    /\ UNCHANGED <<procVars, lineVars, sanVars, homeVars>>

\* lines 744-766: the page buttons are rendered, and a click starts no more
\* than MaxRenders calls of renderPage
ButtonsRendered ==
    /\ CanvasMounted
    /\ numPages > 1
    /\ Len(calls) + (IF loadPc = "loading" THEN 2 ELSE 0) < MaxRenders

\* lines 689-691 and 746-752: a click on the previous button
GoToPrevPage ==
    /\ ~navDue
    /\ ButtonsRendered
    /\ ~(pageNumber <= 1 \/ loading)
    /\ pageNumber' = goToPrevPage(pageNumber)
    /\ navDue' = (pageNumber' # pageNumber)
    /\ UNCHANGED <<pvFile, numPages, loading, pvError, pdfDocRef,
                   renderTaskRef, tasks, calls, loadPc, loads>>
    /\ UNCHANGED <<procVars, lineVars, sanVars, homeVars>>

\* lines 693-695 and 758-764: a click on the next button
GoToNextPage ==
    /\ ~navDue
    /\ ButtonsRendered
    /\ ~(pageNumber >= numPages \/ loading)
    /\ pageNumber' = goToNextPage(pageNumber)
    /\ navDue' = (pageNumber' # pageNumber)
    /\ UNCHANGED <<pvFile, numPages, loading, pvError, pdfDocRef,
                   renderTaskRef, tasks, calls, loadPc, loads>>
    /\ UNCHANGED <<procVars, lineVars, sanVars, homeVars>>

InitPreview == NoPipeline /\ SanitizeIdle /\ HomeIdle /\ PreviewIdle

NextPreview ==
    \/ PreviewFileChanged
    \/ LoadResolved
    \/ LoadFailed
    \/ NavEffect
    \/ \E c \in 1..Len(calls) : GetPageResolved(c)
    \/ \E c \in 1..Len(calls) : TaskCompletes(c)
    \/ \E c \in 1..Len(calls) : TaskFails(c)
    \/ \E c \in 1..Len(calls) : TaskCancelled(c)
    \/ GoToPrevPage
    \/ GoToNextPage

SpecPreview == InitPreview /\ [][NextPreview]_vars

\* the render tasks that are neither settled nor cancelled
RunningTasks == {t \in 1..Len(tasks) : tasks[t] = "running"}

\* C22: the step in which a call of renderPage learns that its render task
\* was cancelled leaves the error of the preview as it is.
CancelledRenderIsSilent ==
    [][\A c \in 1..Len(calls) :
          (/\ calls[c].pc = "render"
           /\ tasks[calls[c].task] = "cancelled"
           /\ calls'[c].pc = "returned") => (pvError' = pvError)]_vars

\* C22: the render task of a call was cancelled by a later call of
\* renderPage, the call has returned, and no error is set.
CancelledRenderIsSilentWitness ==
    \E c \in 1..Len(calls) :
        /\ calls[c].pc = "returned"
        /\ calls[c].task # 0
        /\ tasks[calls[c].task] = "cancelled"
        /\ c < Len(calls)
        /\ pvError = "none"
        /\ pvFile # NoFile

PageNumberInRange ==
    numPages >= 1 =>
        /\ 1 <= pageNumber /\ pageNumber <= numPages
        /\ goToPrevPage(1) = 1
        /\ goToNextPage(numPages) = numPages

\* C29: the second page of the second document, after the first document
\* was shown.
PageNumberInRangeWitness ==
    /\ loads = 2
    /\ pdfDocRef = pvFile
    /\ pvFile.id = 2
    /\ numPages = 2
    /\ pageNumber = 2
    /\ Len(calls) >= 3
    /\ \A c \in 1..Len(calls) : calls[c].pc = "returned"
=============================================================================
